---- MODULE Spec2Model ----
(***************************************************************************)
(* Arena-allocated regular-expression AST of regram: the Ast sum type,     *)
(* the take_X accessors, the cross-arena clone_into and the in-place       *)
(* normalize pass, over an explicit heap of arena slots.                   *)
(***************************************************************************)
EXTENDS Integers, Sequences, FiniteSets, TLC

\* ------------------------------------------------------------------ bounds
MaxNodes  == 3   \* nodes of an input tree
MaxRanges == 2   \* ranges of an input Class
MaxRep    == 2   \* largest repetition count of an input RepeatKind
MaxOps    == 2   \* calls made by the caller in one behaviour

\* ------------------------------------------------------------ RepeatKind
Exact(n)      == [k |-> "Exact",   a |-> n, b |-> n]
AtLeast(n)    == [k |-> "AtLeast", a |-> n, b |-> n]
Bounded(s, e) == [k |-> "Bounded", a |-> s, b |-> e]
NoKind        == [k |-> "None",    a |-> 0, b |-> 0]

RepeatKind == {Exact(n) : n \in 0..MaxRep} \cup {AtLeast(0)}
              \cup {Bounded(s, e) : s \in 0..MaxRep, e \in 0..MaxRep}

\* mutant: the Bounded(n, n) fold is forgotten
RepeatKindNormalizeNoFold(kind) == kind

\* RepeatKind::normalize
RepeatKindNormalize(kind) ==
    IF kind.k = "Bounded" /\ kind.a = kind.b THEN Exact(kind.a) ELSE kind

\* ------------------------------------------------------------- ByteRange
ByteRange(s, e) == [start |-> s, end |-> e]

\* sample ranges: sharing a start, overlapping, with start > end, and with
\* starts and ends in different orders
RangeSamples == {ByteRange(5, 5), ByteRange(1, 7), ByteRange(1, 0)}
LitSamples   == {<<97>>, <<97, 98>>}

SeqsUpTo(S, n) == UNION {[1..m -> S] : m \in 1..n}

\* ------------------------------------------------------- abstract trees
\* the value of a tree, as derive(PartialEq) on Ast compares it
Node(tag, kind, kids, data) ==
    [tag |-> tag, kind |-> kind, kids |-> kids, data |-> data]

TEmpty          == Node("Empty", NoKind, <<>>, <<>>)
TDot            == Node("Dot", NoKind, <<>>, <<>>)
TLit(bytes)     == Node("Lit", NoKind, <<>>, bytes)
TClass(ranges)  == Node("Class", NoKind, <<>>, ranges)
TAlt(kids)      == Node("Alt", NoKind, kids, <<>>)
TConcat(kids)   == Node("Concat", NoKind, kids, <<>>)
TGroup(t)       == Node("Group", NoKind, <<t>>, <<>>)
TRepeat(k, t)   == Node("Repeat", k, <<t>>, <<>>)

Leaves == {TEmpty, TDot} \cup {TLit(b) : b \in LitSamples}
          \cup {TClass(r) : r \in SeqsUpTo(RangeSamples, MaxRanges)}

RECURSIVE TreesOfSize(_), KidsOfSize(_)
TreesOfSize(n) ==
    IF n = 1 THEN Leaves
    ELSE {TAlt(ks) : ks \in KidsOfSize(n - 1)}
         \cup {TConcat(ks) : ks \in KidsOfSize(n - 1)}
         \cup {TGroup(t) : t \in TreesOfSize(n - 1)}
         \cup {TRepeat(k, t) : k \in RepeatKind, t \in TreesOfSize(n - 1)}

\* the nonempty child sequences whose trees have n nodes in all
KidsOfSize(n) ==
    {<<t>> : t \in TreesOfSize(n)}
    \cup UNION {{<<t>> \o ks : t \in TreesOfSize(m), ks \in KidsOfSize(n - m)}
                : m \in 1..(n - 1)}

\* the trees a producer may hand to the operations
InputTrees == UNION {TreesOfSize(n) : n \in 1..MaxNodes}

\* ------------------------------------------------------------------ heap
\* A slot holds an Ast value whose refs are the addresses of its payload:
\* the children slice (Alt, Concat), the boxed child (Group, Repeat) or the
\* byte / range buffer (Lit, Class).  A buffer slot holds the elements.
Cell(tag, kind, refs, data) ==
    [tag |-> tag, kind |-> kind, refs |-> refs, data |-> data]
Empty == Cell("Empty", NoKind, <<>>, <<>>)
Buf(data) == Cell("Buf", NoKind, <<>>, data)

Caller == "caller"   \* a slot the caller holds (a root)
ArenaA == "A"        \* the arena the input tree was built in
ArenaB == "B"        \* the target arena of clone_into

\* n counts the allocations made since the heap value was formed
Heap(m, o) == [mem |-> m, own |-> o, n |-> 0]

\* mutant: a slice is allocated element by element
AllocPerElement(H, cells, ar) ==
    [mem |-> H.mem \o cells,
     own |-> H.own \o [i \in 1..Len(cells) |-> ar],
     n   |-> H.n + Len(cells)]

\* Bump::alloc / alloc_slice_copy / alloc_slice_fill_iter: fresh slots at
\* the end of the heap, owned by arena ar; earlier slots never move
Alloc(H, cells, ar) ==
    [mem |-> H.mem \o cells,
     own |-> H.own \o [i \in 1..Len(cells) |-> ar],
     n   |-> H.n + 1]

AddrsAfter(H, n) == [i \in 1..n |-> Len(H.mem) + i]

RECURSIVE Build(_, _, _), BuildKids(_, _, _)
\* the producer: lay tree t out in arena ar
Build(t, H, ar) ==
    CASE t.tag \in {"Empty", "Dot"} ->
            [H |-> H, cell |-> Cell(t.tag, NoKind, <<>>, <<>>)]
      [] t.tag \in {"Lit", "Class"} ->
            [H |-> Alloc(H, <<Buf(t.data)>>, ar),
             cell |-> Cell(t.tag, NoKind, AddrsAfter(H, 1), <<>>)]
      [] OTHER ->
            LET r == BuildKids(t.kids, H, ar)
            IN  [H |-> Alloc(r.H, r.cells, ar),
                 cell |-> Cell(t.tag, t.kind, AddrsAfter(r.H, Len(r.cells)), <<>>)]

BuildKids(ts, H, ar) ==
    IF ts = <<>> THEN [H |-> H, cells |-> <<>>]
    ELSE LET r == Build(Head(ts), H, ar)
             q == BuildKids(Tail(ts), r.H, ar)
         IN  [H |-> q.H, cells |-> <<r.cell>> \o q.cells]

RECURSIVE Abs(_, _)
\* the structural value of the tree rooted in cell c
Abs(m, c) ==
    IF c.tag \in {"Lit", "Class"}
    THEN Node(c.tag, c.kind, <<>>, m[c.refs[1]].data)
    ELSE Node(c.tag, c.kind, [i \in 1..Len(c.refs) |-> Abs(m, m[c.refs[i]])], <<>>)

Range(s) == {s[i] : i \in 1..Len(s)}

RECURSIVE ReachFrom(_, _)
\* the slots reachable from the addresses of set as
ReachFrom(m, as) ==
    LET next == as \cup UNION {Range(m[a].refs) : a \in as}
    IN  IF next = as THEN as ELSE ReachFrom(m, next)

\* ----------------------------------------------------------------- state
VARIABLES
    mem,        \* slot address -> Ast value or buffer
    own,        \* slot address -> the arena (or the caller) owning the slot
    copy,       \* the slot of the tree clone_into returned, 0 before the call
    stack,      \* the frames of the running Ast::normalize, innermost last
    ret,        \* what the last take_X returned
    panicked,   \* an unwrap or unreachable!() was hit
    nops,       \* calls made so far
    last,       \* the last call: its name, its target, whether the target was canonical
    pre,        \* the heap when the last call was made
    canon,      \* the roots holding the untouched result of a normalize
    promoted,   \* the slot the last promoted child was moved out of, 0 if none
    allocs,     \* the allocations the last clone_into made in its target arena
    input,      \* the raw slice handed to a NonEmpty constructor
    tried,      \* the constructor called on input and what it returned
    holds,      \* slot -> the input node the slot holds in the running normalize
    visits      \* the input nodes Ast::normalize was called on, in call order

vars == <<mem, own, copy, stack, ret, panicked, nops, last, pre, canon, promoted,
          allocs, input, tried, holds, visits>>

RootT == 1
Roots == {RootT} \cup (IF copy = 0 THEN {} ELSE {copy})

NotTried  == [call |-> "none", res |-> [ok |-> FALSE, val |-> <<>>]]
None      == [some |-> FALSE, val |-> Empty]
Some(v)   == [some |-> TRUE, val |-> v]
Call(op, at, c) == [op |-> op, at |-> at, canon |-> c]

Init ==
    \E t \in InputTrees :
        LET r == Build(t, Heap(<<Empty>>, <<Caller>>), ArenaA)
        IN  /\ mem = [r.H.mem EXCEPT ![RootT] = r.cell]
            /\ own = r.H.own
            /\ copy = 0
            /\ stack = <<>>
            /\ ret = None
            /\ panicked = FALSE
            /\ nops = 0
            /\ last = Call("init", RootT, FALSE)
            /\ pre = mem
            /\ canon = {}
            /\ promoted = 0
            /\ allocs = 0
            /\ input = <<>>
            /\ tried = NotTried
            /\ holds = [a \in DOMAIN mem |-> a]
            /\ visits = <<>>

Idle == stack = <<>> /\ ~panicked /\ nops < MaxOps

\* ------------------------------------------------------------- take_X
PayloadKinds == {"Lit", "Class", "Alt", "Concat", "Group", "Repeat"}

\* mutant: take_alt generated with is_concat
IsKindMixedUp(X, c) == c.tag = (IF X = "Alt" THEN "Concat" ELSE X)

\* is_X
IsKind(X, c) == c.tag = X

\* take_X on the slot a: what it returns, what it leaves, whether it panics
TakeKindResult(X, m, a) ==
    IF ~IsKind(X, m[a])
    THEN [ret |-> None, mem |-> m, panic |-> FALSE]
    ELSE LET old == m[a]                       \* core::mem::take(self)
             m1  == [m EXCEPT ![a] = Empty]
         IN  IF old.tag = X
             THEN [ret |-> Some(old), mem |-> m1, panic |-> FALSE]
             ELSE [ret |-> None, mem |-> m1, panic |-> TRUE]   \* unreachable!()

TakeKind(X, a) ==
    /\ Idle
    /\ LET r == TakeKindResult(X, mem, a)
       IN  /\ mem' = r.mem
           /\ ret' = r.ret
           /\ panicked' = r.panic
           /\ canon' = IF r.mem = mem THEN canon
                       ELSE {c \in canon : a \notin ReachFrom(mem, {c})}
    /\ nops' = nops + 1
    /\ last' = Call("take", a, FALSE)
    /\ pre' = mem
    /\ UNCHANGED <<own, copy, stack, promoted, allocs, input, tried, holds, visits>>

\* ----------------------------------------------------------- clone_into
\* mutant: the length test is off by one
TryNewOffByOne(slice) ==
    IF Len(slice) > 1 THEN [ok |-> TRUE, val |-> slice]
    ELSE [ok |-> FALSE, val |-> slice]

\* NonEmpty::try_new / try_new_mut, as TryFrom<&mut [T]> uses it
TryNew(slice) ==
    IF Len(slice) > 0 THEN [ok |-> TRUE, val |-> slice]
    ELSE [ok |-> FALSE, val |-> slice]

\* mutant: a bitwise copy of the value, its payload left in the source arena
CloneIntoShallow(c, H, ar) == [H |-> H, cell |-> c, ok |-> TRUE]

RECURSIVE CloneInto(_, _, _), CloneKids(_, _, _)
\* Ast::clone_into and the clone_into of each payload: the clone of the
\* value c into arena ar; ok is FALSE when an unwrap() panicked
CloneInto(c, H, ar) ==
    CASE c.tag \in {"Empty", "Dot"} ->
            [H |-> H, cell |-> c, ok |-> TRUE]
      [] c.tag \in {"Lit", "Class"} ->
            \* bump.alloc_slice_copy(self); slice.try_into().unwrap()
            LET slice == H.mem[c.refs[1]].data
            IN  [H |-> Alloc(H, <<Buf(slice)>>, ar),
                 cell |-> Cell(c.tag, c.kind, AddrsAfter(H, 1), <<>>),
                 ok |-> TryNew(slice).ok]
      [] c.tag \in {"Alt", "Concat"} ->
            \* bump.alloc_slice_fill_iter(children.iter().map(clone_into))
            LET r == CloneKids(c.refs, H, ar)
            IN  [H |-> Alloc(r.H, r.cells, ar),
                 cell |-> Cell(c.tag, c.kind, AddrsAfter(r.H, Len(r.cells)), <<>>),
                 ok |-> r.ok /\ TryNew(r.cells).ok]
      [] OTHER ->
            \* Group, Repeat: bump.alloc(self.child.clone_into(bump)), kind copied
            LET r == CloneInto(H.mem[c.refs[1]], H, ar)
            IN  [H |-> Alloc(r.H, <<r.cell>>, ar),
                 cell |-> Cell(c.tag, c.kind, AddrsAfter(r.H, 1), <<>>),
                 ok |-> r.ok]

CloneKids(refs, H, ar) ==
    IF refs = <<>> THEN [H |-> H, cells |-> <<>>, ok |-> TRUE]
    ELSE LET r == CloneInto(H.mem[Head(refs)], H, ar)
             q == CloneKids(Tail(refs), r.H, ar)
         IN  [H |-> q.H, cells |-> <<r.cell>> \o q.cells, ok |-> r.ok /\ q.ok]

\* let copy = tree.clone_into(&arena_b): the returned value lands in a new
\* slot of the caller
CloneIntoCall ==
    /\ Idle
    /\ copy = 0
    /\ LET r  == CloneInto(mem[RootT], Heap(mem, own), ArenaB)
           H1 == Alloc(r.H, <<r.cell>>, Caller)
       IN  /\ mem' = H1.mem
           /\ own' = H1.own
           /\ copy' = Len(H1.mem)
           /\ panicked' = ~r.ok
           /\ allocs' = r.H.n
    /\ nops' = nops + 1
    /\ last' = Call("clone", RootT, FALSE)
    /\ pre' = mem
    /\ UNCHANGED <<stack, ret, canon, promoted, input, tried, holds, visits>>

\* ------------------------------------------------------------ normalize
Frame(at, pc, idx) == [at |-> at, pc |-> pc, idx |-> idx]
Top        == stack[Len(stack)]
Popped     == SubSeq(stack, 1, Len(stack) - 1)
\* mutant: a fixpoint loop, the caller starts over once the callee is back
CallOnRestarting(pc, idx, a) ==
    Append(SubSeq(stack, 1, Len(stack) - 1), Frame(stack[Len(stack)].at, "start", 0))
        \o <<Frame(a, "start", 0)>>

\* the running frame moves to pc / idx and calls Ast::normalize on slot a
CallOn(pc, idx, a) == Append(Popped, Frame(Top.at, pc, idx)) \o <<Frame(a, "start", 0)>>

Running == stack # <<>> /\ ~panicked
Entering(tags) == Running /\ Top.pc = "start" /\ mem[Top.at].tag \in tags

\* the frame on top returns; the outermost return ends the caller's call
Return ==
    /\ stack' = Popped
    /\ canon' = IF Len(stack) = 1 THEN canon \cup {last.at} ELSE canon

\* the call log grows by one node; once it is longer than the heap has slots
\* some node is in it twice and nothing more is learnt
Log(v, node) == IF Len(v) <= Len(mem) THEN Append(v, node) ELSE v

\* the node of slot child now sits in slot this; child holds a fresh Empty
Moved(this, child) == [holds EXCEPT ![this] = holds[child], ![child] = 0]

\* bookkeeping of a step that leaves the nodes as in h: a frame pushed by the
\* step is a call of Ast::normalize on the node its slot then holds
Observe(h) ==
    /\ holds' = h
    /\ visits' = IF Len(stack') > Len(stack)
                 THEN Log(visits, h[stack'[Len(stack')].at])
                 ELSE visits

\* mutant: the child is copied over this but not taken out of its slot
PromoteWithoutTake(m, this, child) == [m EXCEPT ![this] = m[child]]

\* `*this = mem::take(child)`: the child's value moves into this, its slot keeps Empty
Promote(m, this, child) == [m EXCEPT ![this] = m[child], ![child] = Empty]

\* mutant: ranges that start where their left neighbour starts are dropped
\* after the sort
SortUnstableDedup(s) ==
    LET keep(t) == {i \in 1..Len(t) : i = 1 \/ t[i].start # t[i - 1].start}
        nth(t, k) == CHOOSE i \in keep(t) : Cardinality({j \in keep(t) : j <= i}) = k
    IN  {[k \in 1..Cardinality(keep(t)) |-> t[nth(t, k)]] :
            t \in {u \in {[i \in 1..Len(s) |-> s[f[i]]] : f \in Permutations(1..Len(s))} :
                      \A i, j \in 1..Len(s) : i < j => u[i].start <= u[j].start}}

\* mutant: the sort key is range.end
SortUnstableByEnd(s) ==
    {t \in {[i \in 1..Len(s) |-> s[f[i]]] : f \in Permutations(1..Len(s))} :
        \A i, j \in 1..Len(s) : i < j => t[i].end <= t[j].end}

\* slice::sort_unstable_by_key(|range| range.start): some ordering of the same
\* elements with non-decreasing keys; the order of equal keys is unspecified
SortUnstableByKey(s) ==
    {t \in {[i \in 1..Len(s) |-> s[f[i]]] : f \in Permutations(1..Len(s))} :
        \A i, j \in 1..Len(s) : i < j => t[i].start <= t[j].start}

\* the caller invokes Ast::normalize on one of its trees
Normalize(r) ==
    /\ Idle
    /\ r \in Roots
    /\ stack' = <<Frame(r, "start", 0)>>
    /\ nops' = nops + 1
    /\ last' = Call("normalize", r, r \in canon)
    /\ pre' = mem
    /\ canon' = canon \ {r}
    /\ promoted' = 0
    /\ holds' = [a \in DOMAIN mem |-> a]
    /\ visits' = <<r>>
    /\ UNCHANGED <<mem, own, copy, ret, panicked, allocs, input, tried>>

\* Ast::normalize, the `_ => {}` arm: Empty, Dot, Lit
LeafNormalize ==
    /\ Entering({"Empty", "Dot", "Lit"})
    /\ Return
    /\ UNCHANGED <<mem, own, copy, ret, panicked, nops, last, pre, promoted, allocs,
                   input, tried, holds, visits>>

\* Class::normalize
ClassNormalize ==
    /\ Entering({"Class"})
    /\ LET ranges == mem[Top.at].refs[1]
       IN  \E sorted \in SortUnstableByKey(mem[ranges].data) :
               mem' = [mem EXCEPT ![ranges].data = sorted]
    /\ Return
    /\ UNCHANGED <<own, copy, ret, panicked, nops, last, pre, promoted, allocs,
                   input, tried, holds, visits>>

\* mutant: the singleton test compares with 2
IsSingletonOffByOne(children) == Len(children) = 2

\* `children.len().get() == 1`
IsSingleton(children) == Len(children) = 1

\* mutant: the promoted child is normalized once more, as Repeat does
ChildrenNormalizeRecursing(tag) ==
    /\ Running
    /\ Top.pc \in {"start", "iter"}
    /\ mem[Top.at].tag = tag
    /\ LET this     == Top.at
           children == mem[this].refs
           done     == IF Top.pc = "start" THEN 0 ELSE Top.idx
       IN  IF done < Len(children)
           THEN /\ stack' = CallOn("iter", done + 1, children[done + 1])
                /\ UNCHANGED <<mem, canon, promoted>>
                /\ Observe(holds)
           ELSE IF IsSingleton(children)
                THEN /\ mem' = Promote(mem, this, children[1])
                     /\ promoted' = children[1]
                     /\ stack' = CallOn("ret", 0, this)
                     /\ UNCHANGED canon
                     /\ Observe(Moved(this, children[1]))
                ELSE /\ UNCHANGED <<mem, promoted>>
                     /\ Return
                     /\ Observe(holds)
    /\ UNCHANGED <<own, copy, ret, panicked, nops, last, pre, allocs, input, tried>>

\* Alt::normalize and Concat::normalize: one child per step, then the
\* singleton collapse
ChildrenNormalize(tag) ==
    /\ Running
    /\ Top.pc \in {"start", "iter"}
    /\ mem[Top.at].tag = tag
    /\ LET this     == Top.at
           children == mem[this].refs
           done     == IF Top.pc = "start" THEN 0 ELSE Top.idx
       IN  IF done < Len(children)
           THEN /\ stack' = CallOn("iter", done + 1, children[done + 1])
                /\ UNCHANGED <<mem, canon, promoted>>
                /\ Observe(holds)
           ELSE /\ IF IsSingleton(children)
                   THEN /\ mem' = Promote(mem, this, children[1])
                        /\ promoted' = children[1]
                   ELSE UNCHANGED <<mem, promoted>>
                /\ Return
                /\ Observe(IF IsSingleton(children)
                           THEN Moved(this, children[1]) ELSE holds)
    /\ UNCHANGED <<own, copy, ret, panicked, nops, last, pre, allocs, input, tried>>

AltNormalize == ChildrenNormalize("Alt")

ConcatNormalize == ChildrenNormalize("Concat")

\* mutant: a Group whose child is Empty is dropped
GroupNormalizeErasing ==
    /\ Entering({"Group"})
    /\ IF mem[mem[Top.at].refs[1]] = Empty
       THEN /\ mem' = [mem EXCEPT ![Top.at] = Empty]
            /\ Return
            /\ Observe([holds EXCEPT ![Top.at] = 0])
       ELSE /\ stack' = CallOn("ret", 0, mem[Top.at].refs[1])
            /\ UNCHANGED <<mem, canon>>
            /\ Observe(holds)
    /\ UNCHANGED <<own, copy, ret, panicked, nops, last, pre, promoted, allocs,
                   input, tried>>

\* Group::normalize
GroupNormalize ==
    /\ Entering({"Group"})
    /\ stack' = CallOn("ret", 0, mem[Top.at].refs[1])
    /\ Observe(holds)
    /\ UNCHANGED <<mem, own, copy, ret, panicked, nops, last, pre, canon, promoted, allocs,
                   input, tried>>

\* mutant: Exact(1) promotes the child without the call that normalizes it
RepeatNormalizeNoTailCall ==
    /\ Entering({"Repeat"})
    /\ LET this  == Top.at
           child == mem[this].refs[1]
           kind  == RepeatKindNormalize(mem[this].kind)
       IN  CASE kind = Exact(0) ->
                    /\ mem' = [mem EXCEPT ![this] = Empty]
                    /\ Return
                    /\ UNCHANGED promoted
                    /\ Observe([holds EXCEPT ![this] = 0])
             [] kind = Exact(1) ->
                    /\ mem' = Promote(mem, this, child)
                    /\ promoted' = child
                    /\ Return
                    /\ Observe(Moved(this, child))
             [] OTHER ->
                    /\ mem' = [mem EXCEPT ![this].kind = kind]
                    /\ stack' = CallOn("ret", 0, child)
                    /\ UNCHANGED <<canon, promoted>>
                    /\ Observe(holds)
    /\ UNCHANGED <<own, copy, ret, panicked, nops, last, pre, allocs, input, tried>>

\* Repeat::normalize
RepeatNormalize ==
    /\ Entering({"Repeat"})
    /\ LET this  == Top.at
           child == mem[this].refs[1]
           kind  == RepeatKindNormalize(mem[this].kind)
       IN  CASE kind = Exact(0) ->
                    /\ mem' = [mem EXCEPT ![this] = Empty]
                    /\ Return
                    /\ UNCHANGED promoted
                    /\ Observe([holds EXCEPT ![this] = 0])
             [] kind = Exact(1) ->
                    /\ mem' = Promote(mem, this, child)
                    /\ promoted' = child
                    /\ stack' = CallOn("ret", 0, this)
                    /\ UNCHANGED canon
                    /\ Observe(Moved(this, child))
             [] OTHER ->
                    /\ mem' = [mem EXCEPT ![this].kind = kind]
                    /\ stack' = CallOn("ret", 0, child)
                    /\ UNCHANGED <<canon, promoted>>
                    /\ Observe(holds)
    /\ UNCHANGED <<own, copy, ret, panicked, nops, last, pre, allocs, input, tried>>

\* a call made by Group::normalize or Repeat::normalize came back
NormalizeReturn ==
    /\ Running
    /\ Top.pc = "ret"
    /\ Return
    /\ UNCHANGED <<mem, own, copy, ret, panicked, nops, last, pre, promoted, allocs,
                   input, tried, holds, visits>>

NormalizeStep ==
    \/ LeafNormalize
    \/ ClassNormalize
    \/ AltNormalize
    \/ ConcatNormalize
    \/ GroupNormalize
    \/ RepeatNormalize
    \/ NormalizeReturn

\* ------------------------------------------------------- specifications
\* the caller's calls: normalize on a tree it holds, take_X on any node it
\* can reach through the public fields, clone_into of its tree
NormalizeCall == \E r \in Roots : Normalize(r)

\* the Ast slots among the slots reachable from the caller's trees
AstSlots == {a \in ReachFrom(mem, Roots) : mem[a].tag # "Buf"}

TakeCall == \E X \in PayloadKinds : \E a \in AstSlots : TakeKind(X, a)

Next ==
    \/ NormalizeCall
    \/ NormalizeStep
    \/ TakeCall
    \/ CloneIntoCall

Spec == Init /\ [][Next]_vars

\* normalize under its scheduling: a running call is not suspended
LiveSpec == Spec /\ WF_vars(NormalizeStep)

\* --------------------------------------------------------- observations
RECURSIVE Subtrees(_), Depth(_), Groups(_), SurvivingGroups(_)
Subtrees(t) == {t} \cup UNION {Subtrees(t.kids[i]) : i \in 1..Len(t.kids)}

Max(S) == CHOOSE x \in S : \A y \in S : y <= x

\* nodes on the longest path from t down to a leaf
Depth(t) == 1 + Max({0} \cup {Depth(t.kids[i]) : i \in 1..Len(t.kids)})

Sum(f) ==
    LET RECURSIVE Upto(_)
        Upto(n) == IF n = 0 THEN 0 ELSE f[n] + Upto(n - 1)
    IN  Upto(Len(f))

Groups(t) ==
    (IF t.tag = "Group" THEN 1 ELSE 0)
    + Sum([i \in 1..Len(t.kids) |-> Groups(t.kids[i])])

\* the Group nodes of t under no Repeat of zero repetitions
SurvivingGroups(t) ==
    IF t.tag = "Repeat" /\ t.kind \in {Exact(0), Bounded(0, 0)} THEN 0
    ELSE (IF t.tag = "Group" THEN 1 ELSE 0)
         + Sum([i \in 1..Len(t.kids) |-> SurvivingGroups(t.kids[i])])

SortedByStart(r) == \A i, j \in 1..Len(r) : i < j => r[i].start <= r[j].start

Returned == stack = <<>> /\ ~panicked /\ last.op = "normalize"
Before   == Abs(pre, pre[last.at])     \* the target of the last call, at the call
After    == Abs(mem, mem[last.at])     \* the same slot now

\* ---------------------------------------------------------------- claims

C2_NoSingletonAltConcat ==
    Returned =>
        \A s \in Subtrees(After) :
            s.tag \in {"Alt", "Concat"} => Len(s.kids) # 1

\* a singleton Alt or Concat below the root of the input went through normalize
C2_Witness ==
    /\ Returned
    /\ \E s \in Subtrees(Before) \ {Before} :
           s.tag \in {"Alt", "Concat"} /\ Len(s.kids) = 1

\* C3: after normalize returns, no Repeat node of the tree, at any depth, has
\* kind Exact(0), Exact(1) or Bounded(n, n).
C3_NoDegenerateRepeat ==
    Returned =>
        \A s \in Subtrees(After) :
            s.tag = "Repeat" =>
                /\ s.kind \notin {Exact(0), Exact(1)}
                /\ ~(s.kind.k = "Bounded" /\ s.kind.a = s.kind.b)

\* a chain of two Repeat nodes of kinds Exact(1) / Bounded(1,1) went through
\* normalize
C3_Witness ==
    /\ Returned
    /\ Before.tag = "Repeat" /\ Before.kind = Bounded(1, 1)
    /\ Before.kids[1].tag = "Repeat" /\ Before.kids[1].kind = Exact(1)

\* C4 as stated: normalize leaves the number of Group nodes of the tree
\* unchanged, whatever their ancestors are.
C4_GroupsNeverErased == Returned => Groups(After) = Groups(Before)

\* C4 amended: the Group nodes left by normalize are those of the input that
\* lie under no Repeat of kind Exact(0) or Bounded(0,0).
C4_GroupsSurviveOutsideZeroRepeat ==
    Returned => Groups(After) = SurvivingGroups(Before)

\* a Group under a collapsing Alt / Concat / Repeat(Exact(1)) survived normalize
C4_Witness ==
    /\ Returned
    /\ Before.tag \in {"Alt", "Concat", "Repeat"}
    /\ Before.kids[1].tag = "Group"
    /\ After.tag = "Group"

\* C5: take_X on a node of variant X returns the payload and leaves the node
\* Empty; on a node of any other variant it returns nothing and changes no
\* slot; it never panics.
C5_TakeContract ==
    [][\A X \in PayloadKinds : \A a \in AstSlots :
          TakeKind(X, a) =>
              /\ ~panicked'
              /\ mem[a].tag = X =>
                    /\ ret' = Some(mem[a])
                    /\ mem'[a] = Empty
                    /\ \A b \in DOMAIN mem \ {a} : mem'[b] = mem[b]
              /\ mem[a].tag # X =>
                    /\ ret' = None
                    /\ mem' = mem]_vars

\* a take_X found its variant below the root: the payload came back and the
\* slot holds Empty
C5_Witness ==
    /\ last.op = "take" /\ last.at # RootT
    /\ ret.some /\ ret.val = pre[last.at]
    /\ mem[last.at] = Empty

\* C6: clone_into returns a tree structurally equal to the source, all of its
\* slots in the target arena and none shared with the source, and leaves the
\* source unchanged; a later normalize or take_X on the copy changes no slot
\* of the source.
C6_CloneFaithful ==
    /\ (last.op = "clone" /\ ~panicked) =>
          /\ Abs(mem, mem[copy]) = Abs(pre, pre[RootT])
          /\ \A a \in ReachFrom(mem, {copy}) \ {copy} : own[a] = ArenaB
          /\ ReachFrom(mem, {copy}) \cap ReachFrom(mem, {RootT}) = {}
          /\ \A a \in DOMAIN pre : mem[a] = pre[a]
    /\ (copy # 0 /\ last.op \in {"normalize", "take"}
           /\ last.at \in ReachFrom(pre, {copy})) =>
          /\ \A a \in ReachFrom(pre, {RootT}) : mem[a] = pre[a]
          /\ Abs(mem, mem[RootT]) = Abs(pre, pre[RootT])

\* a tree with a Class below its root was cloned and the copy was normalized,
\* which changed the copy
C6_Witness ==
    /\ copy # 0 /\ Returned /\ last.at = copy
    /\ \E s \in Subtrees(Abs(mem, mem[RootT])) \ {Abs(mem, mem[RootT])} : s.tag = "Class"
    /\ After # Before

\* C7: every Lit byte sequence, Class range sequence and Alt / Concat child
\* sequence reachable from a root has at least one element, and no unwrap or
\* unreachable!() is hit.
C7_SequencesNonEmpty ==
    /\ ~panicked
    /\ \A a \in ReachFrom(mem, Roots) :
          /\ mem[a].tag \in {"Lit", "Class"} => Len(mem[mem[a].refs[1]].data) >= 1
          /\ mem[a].tag \in {"Alt", "Concat"} => Len(mem[a].refs) >= 1

\* a take_X emptied a node under an Alt or Concat, which a later normalize
\* then collapsed
C7_Witness ==
    /\ Returned /\ promoted # 0
    /\ Before.tag \in {"Alt", "Concat"}
    /\ Before.kids[1] = TEmpty
    /\ ret.some

\* the (parent, index) pairs through which slot a is referenced
Parents(m, R, a) ==
    UNION {{<<p, i>> : i \in {j \in DOMAIN m[p].refs : m[p].refs[j] = a}} : p \in R}

\* C8: every slot reachable from a root is referenced by exactly one parent
\* (a root by none) and lies on no cycle; the slot a promoted child was moved
\* out of holds Empty and is unreachable.
C8_OwnershipTree ==
    LET R == ReachFrom(mem, Roots)
    IN  /\ \A a \in R :
              /\ Cardinality(Parents(mem, R, a)) = (IF a \in Roots THEN 0 ELSE 1)
              /\ a \notin ReachFrom(mem, Range(mem[a].refs))
        /\ promoted # 0 => (mem[promoted] = Empty /\ promoted \notin R)

\* a composite child was promoted over its parent: its own children hang
\* under the parent's slot now
C8_Witness ==
    /\ Returned /\ promoted # 0
    /\ After.tag \in {"Group", "Repeat", "Alt", "Concat"}
    /\ Before.tag \in {"Alt", "Concat", "Repeat"}

\* C9: a running normalize returns, and its call stack is never deeper than
\* the input tree.
C9_NormalizeTerminates ==
    /\ [](Len(stack) <= Depth(Before))
    /\ (stack # <<>>) ~> (stack = <<>>)

\* normalize ran through a chain of Repeat(Bounded(1,1)) over Repeat(Exact(1))
\* with its stack as deep as the tree
C9_Witness ==
    /\ last.op = "normalize" /\ Len(stack) = 3
    /\ Before.tag = "Repeat" /\ Before.kind = Bounded(1, 1)
    /\ Before.kids[1].tag = "Repeat" /\ Before.kids[1].kind = Exact(1)

\* C10: after normalize returns, the ranges of every Class node of the tree
\* are in non-decreasing order of start.
C10_ClassSortedByStart ==
    Returned =>
        \A s \in Subtrees(After) : s.tag = "Class" => SortedByStart(s.data)

\* a Class below the root whose starts were out of order, one range having
\* start > end, went through normalize
C10_Witness ==
    /\ Returned
    /\ \E s \in Subtrees(Before) \ {Before} :
           /\ s.tag = "Class"
           /\ ~SortedByStart(s.data)
           /\ \E i \in 1..Len(s.data) : s.data[i].start > s.data[i].end

\* ------------------------------------------------ normalize as a relation
RECURSIVE NormalizeResults(_), KidsResults(_)
\* the trees one call of Ast::normalize may leave in place of the tree t
NormalizeResults(t) ==
    CASE t.tag = "Class" ->
            {TClass(r) : r \in SortUnstableByKey(t.data)}
      [] t.tag \in {"Alt", "Concat"} ->
            IF IsSingleton(t.kids) THEN NormalizeResults(t.kids[1])
            ELSE {Node(t.tag, t.kind, ks, <<>>) : ks \in KidsResults(t.kids)}
      [] t.tag = "Group" ->
            {TGroup(c) : c \in NormalizeResults(t.kids[1])}
      [] t.tag = "Repeat" ->
            LET kind == RepeatKindNormalize(t.kind)
            IN  CASE kind = Exact(0) -> {TEmpty}
                  [] kind = Exact(1) -> NormalizeResults(t.kids[1])
                  [] OTHER -> {TRepeat(kind, c) : c \in NormalizeResults(t.kids[1])}
      [] OTHER -> {t}

\* the children normalized one by one, left to right
KidsResults(ts) ==
    IF ts = <<>> THEN {<<>>}
    ELSE {<<c>> \o ks : c \in NormalizeResults(Head(ts)), ks \in KidsResults(Tail(ts))}

\* C11: normalizing Repeat(Exact(1), child) or Repeat(Bounded(1,1), child)
\* yields a tree that normalizing child on its own yields.
C11_RepeatOnceIsChild ==
    (/\ Returned
     /\ Before.tag = "Repeat"
     /\ Before.kind \in {Exact(1), Bounded(1, 1)}) =>
        After \in NormalizeResults(Before.kids[1])

\* a Repeat(Bounded(1,1)) over a child that normalize rewrites went through
\* normalize
C11_Witness ==
    /\ Returned
    /\ Before.tag = "Repeat" /\ Before.kind = Bounded(1, 1)
    /\ Before.kids[1].tag \in {"Alt", "Concat", "Class", "Repeat"}
    /\ After # Before.kids[1]

\* every result of the stepwise normalize is a result of the relation
NormalizeAgrees == Returned => After \in NormalizeResults(Before)

RECURSIVE PayloadNodes(_)
\* the nodes of t that are neither Dot nor Empty
PayloadNodes(t) ==
    (IF t.tag \in {"Dot", "Empty"} THEN 0 ELSE 1)
    + Sum([i \in 1..Len(t.kids) |-> PayloadNodes(t.kids[i])])

\* C12: clone_into makes one allocation in the target arena for each Lit,
\* Class, Alt, Concat, Group and Repeat node of the source and none for Dot
\* and Empty, and it does not fail.
C12_OneAllocationPerNode ==
    last.op = "clone" =>
        /\ ~panicked
        /\ allocs = PayloadNodes(Abs(pre, pre[RootT]))

\* an Alt or Concat of two children, one of them Dot or Empty, was cloned
C12_Witness ==
    /\ last.op = "clone" /\ allocs > 0
    /\ LET t == Abs(pre, pre[RootT])
       IN  /\ t.tag \in {"Alt", "Concat"} /\ Len(t.kids) = 2
           /\ \E i \in 1..2 : t.kids[i].tag \in {"Dot", "Empty"}

\* --------------------------------------------------- NonEmpty constructors
MaxSliceLen == 4   \* elements of a raw slice handed to a constructor
SliceElems  == {1, 2, 3}
Slices      == {<<>>} \cup SeqsUpTo(SliceElems, MaxSliceLen)

\* mutant: the unchecked constructor is used for every slice
TryNewMutUnchecked(slice) == [ok |-> TRUE, val |-> slice]

\* NonEmpty::try_new_mut
TryNewMut(slice) ==
    IF Len(slice) > 0 THEN [ok |-> TRUE, val |-> slice]
    ELSE [ok |-> FALSE, val |-> slice]

\* NonEmpty::len on a wrapped view
NonEmptyLen(view) == Len(view)

\* a caller holds some raw slice and has called nothing yet
SliceInit ==
    /\ input \in Slices
    /\ tried = NotTried
    /\ mem = <<Empty>>
    /\ own = <<Caller>>
    /\ copy = 0
    /\ stack = <<>>
    /\ ret = None
    /\ panicked = FALSE
    /\ nops = 0
    /\ last = Call("init", RootT, FALSE)
    /\ pre = mem
    /\ canon = {}
    /\ promoted = 0
    /\ allocs = 0
    /\ holds = [a \in DOMAIN mem |-> a]
    /\ visits = <<>>

SliceCall(name, res, panics) ==
    /\ tried = NotTried
    /\ tried' = [call |-> name, res |-> res]
    /\ panicked' = panics
    /\ UNCHANGED <<mem, own, copy, stack, ret, nops, last, pre, canon, promoted,
                   allocs, input, holds, visits>>

TryNewCall    == SliceCall("try_new", TryNew(input), FALSE)
TryNewMutCall == SliceCall("try_new_mut", TryNewMut(input), FALSE)

\* NonEmpty::new: try_new, and a panic on the rejection
NewCall == SliceCall("new", TryNew(input), ~TryNew(input).ok)

SliceNext == TryNewCall \/ TryNewMutCall \/ NewCall

SliceSpec == SliceInit /\ [][SliceNext]_vars

\* C13: try_new and try_new_mut never panic; on a zero-length slice they return
\* the rejection carrying the slice they were given; on a slice of length >= 1
\* they return a view with the same elements in the same order, whose len() is
\* the length of the slice and is not 0.
C13_TryNewContract ==
    tried.call \in {"try_new", "try_new_mut"} =>
        /\ ~panicked
        /\ tried.res.val = input
        /\ tried.res.ok <=> Len(input) >= 1
        /\ tried.res.ok => /\ NonEmptyLen(tried.res.val) = Len(input)
                           /\ NonEmptyLen(tried.res.val) # 0
                           /\ \A i \in 1..Len(input) : tried.res.val[i] = input[i]

\* both outcomes of both constructors are seen: this one is the rejection of
\* try_new_mut (C13_Accepts below is the wrapped view of try_new)
C13_Witness ==
    /\ tried.call = "try_new_mut"
    /\ input = <<>>
    /\ ~tried.res.ok

C13_Accepts ==
    /\ tried.call = "try_new"
    /\ Len(input) = MaxSliceLen
    /\ tried.res.ok

\* ------------------------------------------------------ the order of calls
Visited(x) == \E i \in 1..Len(visits) : visits[i] = x
Pos(x)     == CHOOSE i \in 1..Len(visits) : visits[i] = x

\* the Ast nodes of the tree the running normalize was called on
InputNodes == {a \in ReachFrom(pre, {last.at}) : pre[a].tag # "Buf"}

\* the children of the Alt or Concat p were called in slice order, each after p
ChildrenInOrder(p) ==
    LET children == pre[p].refs
    IN  \A i \in 1..Len(children) :
            Visited(children[i]) =>
                /\ Pos(p) < Pos(children[i])
                /\ \A j \in 1..(i - 1) :
                       /\ Visited(children[j])
                       /\ Pos(children[j]) < Pos(children[i])

\* the Alt or Concat p is past its for_each: the run returned, or p was
\* replaced by its only child and is in no slot any more
PastChildren(p) ==
    /\ Visited(p)
    /\ \/ Returned
       \/ \A a \in DOMAIN holds : holds[a] # p

\* C14: during one run of Ast::normalize every call is on a node of the input
\* tree and no node is called twice; the children of an Alt or Concat are
\* called left to right, after their parent, and all of them before the
\* singleton test; the child promoted by a Repeat Exact(1) is the very next
\* call after the Repeat's.
C14_EachNodeOnce ==
    last.op = "normalize" =>
        /\ \A i \in 1..Len(visits) : visits[i] \in InputNodes
        /\ \A i, j \in 1..Len(visits) : visits[i] = visits[j] => i = j
        /\ \A p \in InputNodes :
               (Visited(p) /\ pre[p].tag \in {"Alt", "Concat"}) =>
                   /\ ChildrenInOrder(p)
                   /\ PastChildren(p) =>
                          \A i \in 1..Len(pre[p].refs) : Visited(pre[p].refs[i])
        /\ \A p \in InputNodes :
               (/\ Visited(p)
                /\ pre[p].tag = "Repeat"
                /\ RepeatKindNormalize(pre[p].kind) = Exact(1)
                /\ Pos(p) < Len(visits)) =>
                   visits[Pos(p) + 1] = pre[p].refs[1]

\* a run over an Alt or Concat of two children came back
C14_Witness ==
    /\ Returned
    /\ pre[last.at].tag \in {"Alt", "Concat"}
    /\ Len(pre[last.at].refs) = 2
    /\ Len(visits) = 3

\* a run came back in which a singleton Alt or Concat collapsed over the
\* child a Repeat Exact(1) had promoted
C14_PromotedOnce ==
    /\ Returned
    /\ pre[last.at].tag \in {"Alt", "Concat"}
    /\ pre[pre[last.at].refs[1]].tag = "Repeat"
    /\ RepeatKindNormalize(pre[pre[last.at].refs[1]].kind) = Exact(1)
    /\ Len(visits) = 3

\* ------------------------------------------------------- Class as a frame
\* how many times each element occurs in s
BagOf(s) == [x \in Range(s) |-> Cardinality({i \in 1..Len(s) : s[i] = x})]

\* the Class nodes of the tree the running normalize was called on
InputClasses == {c \in InputNodes : pre[c].tag = "Class"}

Overlap(r, q) == r.start <= q.end /\ q.start <= r.end

\* C15: normalize only reorders the ranges of a Class: the ranges it leaves
\* are the ranges it found, each as often as before, so none is added,
\* dropped, merged or altered and their number is unchanged, whether they
\* overlap, repeat or have start > end.
C15_ClassOnlyReordered ==
    last.op = "normalize" =>
        \A c \in InputClasses :
            LET ranges == pre[c].refs[1]
            IN  /\ mem[ranges].tag = "Buf"
                /\ Len(mem[ranges].data) = Len(pre[ranges].data)
                /\ BagOf(mem[ranges].data) = BagOf(pre[ranges].data)

\* a Class holding a range with start > end came back in another order
C15_Witness ==
    /\ Returned
    /\ \E c \in InputClasses :
           LET ranges == pre[c].refs[1]
           IN  /\ Visited(c)
               /\ mem[ranges].data # pre[ranges].data
               /\ \E i \in 1..Len(pre[ranges].data) :
                      pre[ranges].data[i].start > pre[ranges].data[i].end

\* a normalized Class of two equal ranges
C15_Duplicates ==
    /\ Returned
    /\ \E c \in InputClasses :
           LET ranges == pre[c].refs[1]
           IN  /\ Visited(c)
               /\ Len(mem[ranges].data) = 2
               /\ mem[ranges].data[1] = mem[ranges].data[2]

\* a normalized Class of two distinct overlapping ranges, reordered
C15_Overlapping ==
    /\ Returned
    /\ \E c \in InputClasses :
           LET ranges == pre[c].refs[1]
           IN  /\ Visited(c)
               /\ Len(mem[ranges].data) = 2
               /\ mem[ranges].data # pre[ranges].data
               /\ Overlap(mem[ranges].data[1], mem[ranges].data[2])

====
